---- MODULE Spec2Model ----
(***************************************************************************)
(* enc_png (src/src/enc_png.c): one call of the raster-to-PNG memory       *)
(* encoder, with the two callbacks it registers with the PNG engine.  The  *)
(* engine (libpng) is an opaque environment: it may fail an allocation, it *)
(* may raise a fault through the error jump from any call made after the   *)
(* handler is installed, and during png_write_png it calls the write and   *)
(* flush callbacks any number of times with chunks of any length.          *)
(***************************************************************************)
EXTENDS Integers, Sequences, FiniteSets, TLC

\* g2int is int: a 32-bit two's-complement integer.
MaxInt == 2147483647
MinInt == -MaxInt - 1

\* Bounds of the model.
MaxChunks == 2
MaxFlush == 1
MaxHeight == 2

\* A large value that still fits a g2int (2^30).
Big == (MaxInt \div 2) + 1

\* Inputs of the call.
Widths == {2, Big}
Heights == 1..MaxHeight
NBits == {8, 16, 24, 32, 64}
SmallCap == 1
\* The caller's output buffer: size bytes, or ample (sized by the caller beyond
\* every stream the engine emits, so every non-negative offset is inside it).
Caps == {[ample |-> FALSE, size |-> SmallCap], [ample |-> TRUE, size |-> 0]}

\* Values the uninitialised local write_io_ptr.stream_len may hold on entry.
Indeterminate == {0, 77, -5}

\* What the engine hands to the write callback: length bytes, byte k being
\* (seed + k) % 256.
Lengths == {1, Big, MaxInt}
Seeds == {7, 250}
Chunks == [len : Lengths, seed : Seeds]

PNG_COLOR_TYPE_GRAY == "PNG_COLOR_TYPE_GRAY"
PNG_COLOR_TYPE_RGB == "PNG_COLOR_TYPE_RGB"
PNG_COLOR_TYPE_RGB_ALPHA == "PNG_COLOR_TYPE_RGB_ALPHA"
PNG_INTERLACE_NONE == "PNG_INTERLACE_NONE"
PNG_COMPRESSION_TYPE_DEFAULT == "PNG_COMPRESSION_TYPE_DEFAULT"
PNG_FILTER_TYPE_DEFAULT == "PNG_FILTER_TYPE_DEFAULT"

VARIABLES
    pc,            \* position in enc_png
    width, height, nbits, cap,   \* the arguments (cap: the size of pngbuf)
    png_ptr,       \* "unset" | "NULL" | "live" | "destroyed"
    info_ptr,      \* "unset" | "NULL" | "live" | "destroyed"
    jmp_set,       \* setjmp(png_jmpbuf(png_ptr)) has been executed
    write_io_ptr,  \* the png_stream: stream_ptr, stream_len
    io_ptr,        \* what png_get_io_ptr returns
    IHDR,          \* what png_set_IHDR registered
    bytes,         \* *nbits / 8
    row_pointers,  \* [mem: "unset" | "NULL" | "alloc" | "freed", rows: the entries]
    j,             \* loop index
    rows_set,      \* png_set_rows has handed row_pointers to the engine
    pngbuf,        \* the memcpy's made through stream_ptr, in order
    chunks,        \* the chunks the engine passed to the write callback
    nflush,        \* the number of flush callbacks
    calls,         \* the engine interactions so far, in order
    ret            \* the value returned

vars == <<pc, width, height, nbits, cap, png_ptr, info_ptr, jmp_set,
          write_io_ptr, io_ptr, IHDR, bytes, row_pointers, j, rows_set,
          pngbuf, chunks, nflush, calls, ret>>

args == <<width, height, nbits, cap>>

----------------------------------------------------------------------------
\* 32-bit arithmetic.

\* (int)((unsigned)s + l): s a g2int, l a png_uint_32 below 2^31.
AddU32(s, l) ==
    IF s >= 0 /\ s > MaxInt - l
    THEN (s - MaxInt - 1) + (l - MaxInt - 1)
    ELSE s + l

\* a + b in int, wrapped.
AddWrap(a, b) ==
    IF a >= 0 /\ b >= 0 /\ a > MaxInt - b
    THEN (a - MaxInt - 1) + (b - MaxInt - 1)
    ELSE IF a < 0 /\ b < 0 /\ a < MinInt - b
    THEN (a + MaxInt + 1) + (b + MaxInt + 1)
    ELSE a + b

\* a * k in int, wrapped (k >= 0).
RECURSIVE MulWrap(_, _)
MulWrap(a, k) == IF k = 0 THEN 0 ELSE AddWrap(MulWrap(a, k - 1), a)

\* a * k fits an int (a, k >= 0).
Fits(a, k) == k = 0 \/ a <= MaxInt \div k

\* The values data + (j * (*width) * bytes) can take, as an offset from data.
\* An int product that overflows is undefined: the build either wraps it to
\* 32 bits, or computes it in the pointer's width ("wide": the exact product,
\* which no int holds).
RowOffset(jj, w, b) ==
    IF Fits(jj, w) /\ Fits(jj * w, b)
    THEN {[kind |-> "int", off |-> jj * w * b]}
    ELSE {[kind |-> "int", off |-> MulWrap(MulWrap(w, jj), b)]}
         \cup (IF b = 0 THEN {} ELSE {[kind |-> "wide", off |-> 0]})

----------------------------------------------------------------------------
\* The callbacks.

\* The bytes [off, off + len) lie inside pngbuf.
InBuffer(off, len) ==
    /\ off >= 0
    /\ cap.ample \/ (len <= cap.size /\ off <= cap.size - len)

user_write_data(chunk) ==
    LET mem == write_io_ptr
        offset == mem.stream_len
    IN /\ io_ptr = "write_io_ptr"
       /\ pngbuf' = Append(pngbuf, [off |-> offset, len |-> chunk.len,
                                    seed |-> chunk.seed])
       /\ write_io_ptr' = [mem EXCEPT !.stream_len = AddU32(mem.stream_len, chunk.len)]

user_flush_data == UNCHANGED <<pngbuf, write_io_ptr>>

\* png_destroy_write_struct(&png_ptr, &info_ptr), or (&png_ptr, NULL) when the
\* info struct is "NULL": frees the write struct, and the info struct if given.
png_destroy_write_struct(info) ==
    /\ png_ptr' = "destroyed"
    /\ info_ptr' = IF info = "live" THEN "destroyed" ELSE info

\* bit_depth with the assignment bit_depth = *nbits replaced by bit_depth = 8.
bit_depth_always_8(nb) == 8

\* color_type with the 32-bit branch setting the colour type of the 24-bit one.
color_type_alpha_as_rgb(nb) ==
    IF nb = 24 THEN PNG_COLOR_TYPE_RGB
    ELSE IF nb = 32 THEN PNG_COLOR_TYPE_RGB
    ELSE PNG_COLOR_TYPE_GRAY

\* bit_depth and color_type as enc_png derives them from *nbits.
bit_depth_of(nb) == IF nb = 24 THEN 8 ELSE IF nb = 32 THEN 8 ELSE nb

color_type_of(nb) ==
    IF nb = 24 THEN PNG_COLOR_TYPE_RGB
    ELSE IF nb = 32 THEN PNG_COLOR_TYPE_RGB_ALPHA
    ELSE PNG_COLOR_TYPE_GRAY

----------------------------------------------------------------------------
Init ==
    /\ pc = "create_write"
    /\ width \in Widths
    /\ height \in Heights
    /\ nbits \in NBits
    /\ cap \in Caps
    /\ png_ptr = "unset"
    /\ info_ptr = "unset"
    /\ jmp_set = FALSE
    /\ write_io_ptr \in [stream_ptr : {"unset"}, stream_len : Indeterminate]
    /\ io_ptr = "none"
    /\ IHDR = [set |-> FALSE]
    /\ bytes = 0
    /\ row_pointers = [mem |-> "unset", rows |-> << >>]
    /\ j = 0
    /\ rows_set = FALSE
    /\ pngbuf = << >>
    /\ chunks = << >>
    /\ nflush = 0
    /\ calls = << >>
    /\ ret = "none"

\* png_create_write_struct returns a struct.
CreateWriteStruct ==
    /\ pc = "create_write"
    /\ png_ptr' = "live"
    /\ calls' = Append(calls, "png_create_write_struct")
    /\ pc' = "create_info"
    /\ UNCHANGED <<args, info_ptr, jmp_set, write_io_ptr, io_ptr, IHDR, bytes,
                   row_pointers, j, rows_set, pngbuf, chunks, nflush, ret>>

\* png_create_write_struct returns NULL: return -1.
CreateWriteStructFails ==
    /\ pc = "create_write"
    /\ png_ptr' = "NULL"
    /\ calls' = Append(calls, "png_create_write_struct")
    /\ ret' = -1
    /\ pc' = "done"
    /\ UNCHANGED <<args, info_ptr, jmp_set, write_io_ptr, io_ptr, IHDR, bytes,
                   row_pointers, j, rows_set, pngbuf, chunks, nflush>>

\* png_create_info_struct returns a struct.
CreateInfoStruct ==
    /\ pc = "create_info"
    /\ info_ptr' = "live"
    /\ calls' = Append(calls, "png_create_info_struct")
    /\ pc' = "setjmp"
    /\ UNCHANGED <<args, png_ptr, jmp_set, write_io_ptr, io_ptr, IHDR, bytes,
                   row_pointers, j, rows_set, pngbuf, chunks, nflush, ret>>

\* The info-struct failure path without its png_destroy_write_struct.
CreateInfoStructFails_NoDestroy ==
    /\ pc = "create_info"
    /\ info_ptr' = "NULL"
    /\ calls' = Append(calls, "png_create_info_struct")
    /\ ret' = -2
    /\ pc' = "done"
    /\ UNCHANGED <<args, png_ptr, jmp_set, write_io_ptr, io_ptr, IHDR, bytes,
                   row_pointers, j, rows_set, pngbuf, chunks, nflush>>

\* png_create_info_struct returns NULL: destroy the write struct, return -2.
CreateInfoStructFails ==
    /\ pc = "create_info"
    /\ calls' = calls \o <<"png_create_info_struct", "png_destroy_write_struct">>
    /\ png_destroy_write_struct("NULL")
    /\ ret' = -2
    /\ pc' = "done"
    /\ UNCHANGED <<args, jmp_set, write_io_ptr, io_ptr, IHDR, bytes,
                   row_pointers, j, rows_set, pngbuf, chunks, nflush>>

\* setjmp(png_jmpbuf(png_ptr)) returns 0: the error handler is installed.
SetJmp ==
    /\ pc = "setjmp"
    /\ jmp_set' = TRUE
    /\ calls' = Append(calls, "setjmp")
    /\ pc' = "init_sink"
    /\ UNCHANGED <<args, png_ptr, info_ptr, write_io_ptr, io_ptr, IHDR, bytes,
                   row_pointers, j, rows_set, pngbuf, chunks, nflush, ret>>

\* write_io_ptr.stream_ptr = pngbuf; write_io_ptr.stream_len = 0.
InitSink ==
    /\ pc = "init_sink"
    /\ write_io_ptr' = [stream_ptr |-> "pngbuf", stream_len |-> 0]
    /\ calls' = Append(calls, "init_sink")
    /\ pc' = "set_write_fn"
    /\ UNCHANGED <<args, png_ptr, info_ptr, jmp_set, io_ptr, IHDR, bytes,
                   row_pointers, j, rows_set, pngbuf, chunks, nflush, ret>>

\* png_set_write_fn(png_ptr, &write_io_ptr, user_write_data, user_flush_data).
SetWriteFn ==
    /\ pc = "set_write_fn"
    /\ io_ptr' = "write_io_ptr"
    /\ calls' = Append(calls, "png_set_write_fn")
    /\ pc' = "set_IHDR"
    /\ UNCHANGED <<args, png_ptr, info_ptr, jmp_set, write_io_ptr, IHDR, bytes,
                   row_pointers, j, rows_set, pngbuf, chunks, nflush, ret>>

\* bit_depth, color_type and png_set_IHDR.
SetIHDR ==
    /\ pc = "set_IHDR"
    /\ IHDR' = [set |-> TRUE, width |-> width, height |-> height,
                bit_depth |-> bit_depth_of(nbits),
                color_type |-> color_type_of(nbits),
                interlace |-> PNG_INTERLACE_NONE,
                compression |-> PNG_COMPRESSION_TYPE_DEFAULT,
                filter |-> PNG_FILTER_TYPE_DEFAULT]
    /\ calls' = Append(calls, "png_set_IHDR")
    /\ pc' = "malloc_rows"
    /\ UNCHANGED <<args, png_ptr, info_ptr, jmp_set, write_io_ptr, io_ptr, bytes,
                   row_pointers, j, rows_set, pngbuf, chunks, nflush, ret>>

\* bytes = *nbits / 8; row_pointers = malloc(...) returns memory; j = 0.
MallocRows ==
    /\ pc = "malloc_rows"
    /\ bytes' = nbits \div 8
    /\ row_pointers' = [mem |-> "alloc", rows |-> << >>]
    /\ j' = 0
    /\ pc' = IF 0 < height THEN "fill_rows" ELSE "set_rows"
    /\ UNCHANGED <<args, png_ptr, info_ptr, jmp_set, write_io_ptr, io_ptr, IHDR,
                   rows_set, pngbuf, chunks, nflush, calls, ret>>

\* malloc returns NULL, which enc_png does not test: the loop's first store,
\* row_pointers[0] = ..., goes through the null pointer (height > 0) and the
\* process dies.
MallocRowsFails ==
    /\ pc = "malloc_rows"
    /\ 0 < height
    /\ bytes' = nbits \div 8
    /\ row_pointers' = [mem |-> "NULL", rows |-> << >>]
    /\ j' = 0
    /\ pc' = "crashed"
    /\ UNCHANGED <<args, png_ptr, info_ptr, jmp_set, write_io_ptr, io_ptr, IHDR,
                   rows_set, pngbuf, chunks, nflush, calls, ret>>

\* One iteration of the loop: row_pointers[j] = data + (j * (*width) * bytes).
FillRow ==
    /\ pc = "fill_rows"
    /\ j < height
    /\ \E e \in RowOffset(j, width, bytes) :
          row_pointers' = [row_pointers EXCEPT !.rows = Append(@, e)]
    /\ j' = j + 1
    /\ pc' = IF j + 1 < height THEN "fill_rows" ELSE "set_rows"
    /\ UNCHANGED <<args, png_ptr, info_ptr, jmp_set, write_io_ptr, io_ptr, IHDR,
                   bytes, rows_set, pngbuf, chunks, nflush, calls, ret>>

\* png_set_rows(png_ptr, info_ptr, row_pointers).
SetRows ==
    /\ pc = "set_rows"
    /\ rows_set' = TRUE
    /\ calls' = Append(calls, "png_set_rows")
    /\ pc' = "write_png"
    /\ UNCHANGED <<args, png_ptr, info_ptr, jmp_set, write_io_ptr, io_ptr, IHDR,
                   bytes, row_pointers, j, pngbuf, chunks, nflush, ret>>

\* png_write_png(png_ptr, info_ptr, PNG_TRANSFORM_IDENTITY, NULL) is entered.
WritePng ==
    /\ pc = "write_png"
    /\ calls' = Append(calls, "png_write_png")
    /\ pc' = "encoding"
    /\ UNCHANGED <<args, png_ptr, info_ptr, jmp_set, write_io_ptr, io_ptr, IHDR,
                   bytes, row_pointers, j, rows_set, pngbuf, chunks, nflush, ret>>

\* The engine calls the write callback.  A memcpy that leaves the caller's
\* buffer is undefined: the bytes land outside it, and the process goes on or
\* dies.
EngineWrite ==
    /\ pc = "encoding"
    /\ Len(chunks) < MaxChunks
    /\ \E chunk \in Chunks :
          /\ user_write_data(chunk)
          /\ chunks' = Append(chunks, chunk)
          /\ \/ pc' = "encoding"
             \/ /\ ~InBuffer(write_io_ptr.stream_len, chunk.len)
                /\ pc' = "crashed"
    /\ calls' = Append(calls, "user_write_data")
    /\ UNCHANGED <<args, png_ptr, info_ptr, jmp_set, io_ptr, IHDR, bytes,
                   row_pointers, j, rows_set, nflush, ret>>

\* The engine calls the flush callback.
EngineFlush ==
    /\ pc = "encoding"
    /\ nflush < MaxFlush
    /\ user_flush_data
    /\ nflush' = nflush + 1
    /\ calls' = Append(calls, "user_flush_data")
    /\ UNCHANGED <<pc, args, png_ptr, info_ptr, jmp_set, io_ptr, IHDR, bytes,
                   row_pointers, j, rows_set, chunks, ret>>

\* png_write_png returns: the stream (signature, IHDR, IDAT, IEND) is out.
WritePngReturns ==
    /\ pc = "encoding"
    /\ Len(chunks) >= 1
    /\ pc' = "destroy"
    /\ UNCHANGED <<args, png_ptr, info_ptr, jmp_set, write_io_ptr, io_ptr, IHDR,
                   bytes, row_pointers, j, rows_set, pngbuf, chunks, nflush,
                   calls, ret>>

\* The engine call a position of enc_png is in, if a fault can leave it.
FaultPoint ==
    [set_write_fn |-> <<"png_set_write_fn">>, set_IHDR |-> <<"png_set_IHDR">>,
     set_rows |-> <<"png_set_rows">>, encoding |-> << >>]

\* The engine raises a fault (png_error): longjmp to the setjmp of enc_png.
EngineFault ==
    /\ pc \in DOMAIN FaultPoint
    /\ jmp_set
    /\ calls' = calls \o FaultPoint[pc] \o <<"longjmp">>
    /\ pc' = "jmp_handler"
    /\ UNCHANGED <<args, png_ptr, info_ptr, jmp_set, write_io_ptr, io_ptr, IHDR,
                   bytes, row_pointers, j, rows_set, pngbuf, chunks, nflush, ret>>

\* setjmp returns non-zero: png_destroy_write_struct(&png_ptr, &info_ptr);
\* return -3.  (png_ptr and info_ptr were last set before the setjmp, so
\* their values are determinate here; no other local is read.)
JmpHandler ==
    /\ pc = "jmp_handler"
    /\ png_destroy_write_struct(info_ptr)
    /\ calls' = Append(calls, "png_destroy_write_struct")
    /\ ret' = -3
    /\ pc' = "done"
    /\ UNCHANGED <<args, jmp_set, write_io_ptr, io_ptr, IHDR, bytes,
                   row_pointers, j, rows_set, pngbuf, chunks, nflush>>

\* The clean-up with the stream length read out before the engine is released.
Destroy_AfterReadLen ==
    /\ pc = "destroy"
    /\ ret' = write_io_ptr.stream_len
    /\ png_destroy_write_struct(info_ptr)
    /\ calls' = calls \o <<"read_stream_len", "png_destroy_write_struct">>
    /\ pc' = "free_rows"
    /\ UNCHANGED <<args, jmp_set, write_io_ptr, io_ptr, IHDR, bytes,
                   row_pointers, j, rows_set, pngbuf, chunks, nflush>>

\* Clean up: png_destroy_write_struct(&png_ptr, &info_ptr).
Destroy ==
    /\ pc = "destroy"
    /\ png_destroy_write_struct(info_ptr)
    /\ calls' = Append(calls, "png_destroy_write_struct")
    /\ pc' = "free_rows"
    /\ UNCHANGED <<args, jmp_set, write_io_ptr, io_ptr, IHDR, bytes,
                   row_pointers, j, rows_set, pngbuf, chunks, nflush, ret>>

\* free(row_pointers).
FreeRows ==
    /\ pc = "free_rows"
    /\ row_pointers' = [row_pointers EXCEPT !.mem = "freed"]
    /\ pc' = "read_len"
    /\ UNCHANGED <<args, png_ptr, info_ptr, jmp_set, write_io_ptr, io_ptr, IHDR,
                   bytes, j, rows_set, pngbuf, chunks, nflush, calls, ret>>

\* pnglen = write_io_ptr.stream_len; return pnglen.
ReadLen ==
    /\ pc = "read_len"
    /\ ret' = write_io_ptr.stream_len
    /\ calls' = Append(calls, "read_stream_len")
    /\ pc' = "done"
    /\ UNCHANGED <<args, png_ptr, info_ptr, jmp_set, write_io_ptr, io_ptr, IHDR,
                   bytes, row_pointers, j, rows_set, pngbuf, chunks, nflush>>

Next ==
    \/ CreateWriteStruct
    \/ CreateWriteStructFails
    \/ CreateInfoStruct
    \/ CreateInfoStructFails
    \/ SetJmp
    \/ InitSink
    \/ SetWriteFn
    \/ SetIHDR
    \/ MallocRows
    \/ MallocRowsFails
    \/ FillRow
    \/ SetRows
    \/ WritePng
    \/ EngineWrite
    \/ EngineFlush
    \/ WritePngReturns
    \/ EngineFault
    \/ JmpHandler
    \/ Destroy
    \/ FreeRows
    \/ ReadLen

Spec == Init /\ [][Next]_vars

----------------------------------------------------------------------------
\* Vocabulary of the properties.

stream_len == write_io_ptr.stream_len

\* enc_png returned through its last statement, return pnglen.
Success == pc = "done" /\ calls # << >> /\ calls[Len(calls)] = "read_stream_len"

\* The engine raised a fault during the call.
Faulted == \E i \in 1..Len(calls) : calls[i] = "longjmp"

\* An allocation of the engine failed.
InitFailed == png_ptr = "NULL" \/ info_ptr = "NULL"

Front(s) == SubSeq(s, 1, Len(s) - 1)

\* The sum of the lengths of the chunks of s, when an int holds it.
RECURSIVE SumLen(_)
SumLen(s) == IF s = << >> THEN 0 ELSE SumLen(Front(s)) + s[Len(s)].len

RECURSIVE SumLenFits(_)
SumLenFits(s) ==
    \/ s = << >>
    \/ /\ SumLenFits(Front(s))
       /\ SumLen(Front(s)) <= MaxInt - s[Len(s)].len

\* off + len <= x, for len > 0.
EndsBy(off, len, x) ==
    IF off < 0 THEN off + len <= x ELSE x >= off /\ len <= x - off

\* Every memcpy so far stayed inside the caller's buffer: the behaviour of the
\* call is defined.
WritesInBuffer == \A k \in 1..Len(pngbuf) : InBuffer(pngbuf[k].off, pngbuf[k].len)

\* Two memcpy's touch a common byte.
Overlap(e, f) == ~EndsBy(e.off, e.len, f.off) /\ ~EndsBy(f.off, f.len, e.off)

----------------------------------------------------------------------------
\* C1: on a successful call the value returned is stream_len at the end of
\* the call, and that is exactly the sum of the lengths of all the chunks the
\* engine passed to the write callback, whatever their number and lengths
\* (stated for the calls whose writes all stayed inside the caller's buffer).
ReturnIsSumOfChunkLengths ==
    (Success /\ WritesInBuffer) =>
        /\ ret = stream_len
        /\ SumLenFits(chunks)
        /\ ret = SumLen(chunks)

\* C2: the sink is append-only.  A write copies the chunk at the offset
\* stream_len had before it and advances stream_len by exactly the chunk's
\* length; stream_len never decreases; no byte written earlier is touched by
\* a later write; a flush changes neither the buffer nor stream_len (stated
\* for the writes that stay inside the caller's buffer).
SinkIsAppendOnly ==
    [][(pc = "encoding" /\ WritesInBuffer') =>
          /\ chunks' # chunks =>
                LET c == chunks'[Len(chunks')]
                    e == pngbuf'[Len(pngbuf')]
                IN /\ pngbuf' = Append(pngbuf, e)
                   /\ e = [off |-> stream_len, len |-> c.len, seed |-> c.seed]
                   /\ stream_len' >= stream_len
                   /\ stream_len' - c.len = stream_len
                   /\ \A k \in 1..Len(pngbuf) : ~Overlap(e, pngbuf[k])
          /\ nflush' # nflush => UNCHANGED <<pngbuf, write_io_ptr>>
          /\ stream_len' >= stream_len
      ]_vars

\* C3: the IHDR registered for 8, 24 and 32 bits per pixel is (8, gray),
\* (8, RGB), (8, RGB+alpha), with the caller's width and height, no
\* interlacing, default compression and default filter type.
IHDRFromBitsPerPixel ==
    (IHDR.set /\ nbits \in {8, 24, 32}) =>
        IHDR = [set |-> TRUE, width |-> width, height |-> height,
                bit_depth |-> 8,
                color_type |-> IF nbits = 8 THEN "PNG_COLOR_TYPE_GRAY"
                               ELSE IF nbits = 24 THEN "PNG_COLOR_TYPE_RGB"
                               ELSE "PNG_COLOR_TYPE_RGB_ALPHA",
                interlace |-> "PNG_INTERLACE_NONE",
                compression |-> "PNG_COMPRESSION_TYPE_DEFAULT",
                filter |-> "PNG_FILTER_TYPE_DEFAULT"]

IHDRWitness ==
    /\ Success
    /\ nbits = 32
    /\ IHDR.set
    /\ IHDR.color_type = "PNG_COLOR_TYPE_RGB_ALPHA"

\* C4: the return value tells the four outcomes apart: -1 for a failed
\* engine-struct allocation, -2 for a failed info-struct allocation, -3 for
\* an engine fault, and on success a byte count that is none of the three
\* (stated for the calls whose writes all stayed inside the caller's buffer).
ReturnCodesDistinct ==
    (pc = "done" /\ WritesInBuffer) =>
        /\ png_ptr = "NULL" => ret = -1
        /\ info_ptr = "NULL" => ret = -2
        /\ Faulted => ret = -3
        /\ Success => ret \notin {-1, -2, -3}

\* C5: on every exit path, everything the call acquired (the engine write
\* struct, the info struct, the row-pointer view) has been released when the
\* call returns.
AllReleasedOnReturn ==
    pc = "done" =>
        /\ png_ptr # "live"
        /\ info_ptr # "live"
        /\ row_pointers.mem # "alloc"

\* C6: when an engine allocation fails enc_png does nothing more: no sink is
\* registered, no callback runs, the output buffer is untouched, and when it
\* is the info struct that failed the engine struct has been released.
InitFailureDoesNoWork ==
    InitFailed =>
        /\ pc = "done"
        /\ ret = (IF png_ptr = "NULL" THEN -1 ELSE -2)
        /\ io_ptr = "none"
        /\ write_io_ptr.stream_ptr = "unset"
        /\ chunks = << >> /\ nflush = 0
        /\ pngbuf = << >>
        /\ ~IHDR.set /\ ~rows_set /\ row_pointers.mem = "unset"
        /\ info_ptr = "NULL" => png_ptr = "destroyed"
        /\ calls \in {<<"png_create_write_struct">>,
                      <<"png_create_write_struct", "png_create_info_struct",
                        "png_destroy_write_struct">>}

InfoAllocFailureWitness ==
    pc = "done" /\ info_ptr = "NULL" /\ png_ptr = "destroyed" /\ ret = -2

\* C7: for a depth other than 8, 24 and 32 enc_png reports no input error of
\* its own: it registers gray with the raw depth and goes on to the row view
\* and the encode step.  Only a failed allocation, an engine fault or the
\* final return pnglen sets the return value.
UnsupportedDepthFallsThrough ==
    [][nbits \notin {8, 24, 32} =>
          /\ (pc = "set_IHDR" /\ pc' # pc) =>
                \/ pc' = "jmp_handler" /\ calls'[Len(calls')] = "longjmp"
                \/ /\ pc' = "malloc_rows"
                   /\ IHDR'.set
                   /\ IHDR'.color_type = "PNG_COLOR_TYPE_GRAY"
                   /\ IHDR'.bit_depth = nbits
          /\ (pc = "malloc_rows" /\ pc' # pc) => pc' \in {"fill_rows", "crashed"}
          /\ (pc = "fill_rows" /\ pc' # pc) => pc' = "set_rows"
          /\ (pc = "set_rows" /\ pc' # pc) => pc' \in {"write_png", "jmp_handler"}
          /\ (pc = "write_png" /\ pc' # pc) => pc' = "encoding"
          /\ (pc' = "done" /\ pc # "done") =>
                \/ pc = "create_write" /\ png_ptr' = "NULL" /\ ret' = -1
                \/ pc = "create_info" /\ info_ptr' = "NULL" /\ ret' = -2
                \/ pc = "jmp_handler" /\ Faulted /\ ret' = -3
                \/ pc = "read_len" /\ ret' = stream_len
      ]_vars

UnsupportedDepthWitness ==
    /\ nbits = 16
    /\ pc = "encoding"
    /\ IHDR.set /\ IHDR.color_type = "PNG_COLOR_TYPE_GRAY" /\ IHDR.bit_depth = 16
    /\ Len(row_pointers.rows) = height
    /\ Len(chunks) >= 1

\* C8: the row-pointer view has exactly height entries, entry i pointing to
\* byte offset i * width * (nbits / 8) of the pixel buffer, for all positive
\* width and height; for 8, 24 and 32 bits the rows are therefore contiguous,
\* pairwise disjoint and inside the height * width * (nbits / 8) bytes
\* (stated for the depths 8, 24 and 32, where all of it applies).
RowPointerViewExact ==
    (rows_set /\ nbits \in {8, 24, 32}) =>
        LET rows == row_pointers.rows IN
        /\ Len(rows) = height
        /\ \A i \in 0..(height - 1) :
              \/ rows[i + 1].kind = "wide"
              \/ /\ Fits(i, width) /\ Fits(i * width, bytes)
                 /\ rows[i + 1].off = i * width * bytes
        /\ \A i \in 1..(height - 1) :
              (rows[i].kind = "int" /\ rows[i + 1].kind = "int") =>
                 /\ rows[i].off >= 0
                 /\ Fits(width, bytes)
                 /\ rows[i + 1].off - width * bytes = rows[i].off

\* C9: the write adapter checks no bound: every chunk is copied whole at
\* offset stream_len and stream_len advances, whatever the capacity, with no
\* error reported; when the engine emits more than the capacity, stream_len
\* exceeds the capacity and enc_png still returns the total byte count as a
\* success.
UncheckedWriteReturnsTotal ==
    /\ Len(pngbuf) = Len(chunks)
    /\ \A k \in 1..Len(chunks) : pngbuf[k].len = chunks[k].len
    /\ (~cap.ample /\ ~Faulted /\ pc # "crashed"
          /\ (~SumLenFits(chunks) \/ SumLen(chunks) > cap.size)) =>
          /\ \/ stream_len > cap.size
             \/ \E k \in 1..Len(pngbuf) : pngbuf[k].off > cap.size
          /\ Success => (SumLenFits(chunks) /\ ret = SumLen(chunks))

\* C10: the engine interactions of one call occur in a fixed order; no write
\* or flush callback occurs before the sink is reset and registered or after
\* the engine resources are released; the error handler is installed before
\* any call that can raise a fault.
CallOrder ==
    <<"png_create_write_struct", "png_create_info_struct", "setjmp",
      "init_sink", "png_set_write_fn", "png_set_IHDR", "png_set_rows",
      "png_write_png", "png_destroy_write_struct", "read_stream_len">>

IsCallback(c) == c \in {"user_write_data", "user_flush_data"}

IsStep(c) == ~IsCallback(c) /\ c # "longjmp"

FixedCallOrder ==
    LET steps == SelectSeq(calls, IsStep)
        Before(name, i) == \E k \in 1..(i - 1) : calls[k] = name
    IN /\ \/ \E n \in 0..Len(CallOrder) : steps = SubSeq(CallOrder, 1, n)
          \/ \E n \in {2, 5, 6, 7, 8} :
                steps = SubSeq(CallOrder, 1, n) \o <<"png_destroy_write_struct">>
       /\ \A i \in 1..Len(calls) :
             /\ IsCallback(calls[i]) =>
                   /\ Before("init_sink", i)
                   /\ Before("png_set_write_fn", i)
                   /\ Before("png_write_png", i)
                   /\ ~Before("png_destroy_write_struct", i)
                   /\ ~Before("longjmp", i)
             /\ calls[i] = "longjmp" => Before("setjmp", i)
             /\ calls[i] \in {"png_set_write_fn", "png_set_IHDR", "png_set_rows",
                              "png_write_png"} => Before("setjmp", i)
       /\ chunks # << >> =>
             /\ write_io_ptr.stream_ptr = "pngbuf"
             /\ io_ptr = "write_io_ptr"
       /\ Success => steps = CallOrder

FixedCallOrderWitness ==
    /\ Success
    /\ Len(chunks) = 2
    /\ nflush = 1
    /\ calls[Len(calls) - 2] = "user_flush_data"
====
